---------------------------- MODULE Spec2Model ----------------------------
(***************************************************************************)
(* The chunked file store of the repository: files are split into parts,   *)
(* each part is uploaded to the remote backend (Telegram), a manifest      *)
(* records the parts, and readers stream the parts back, with byte ranges. *)
(*                                                                         *)
(* Two services are modelled, with the command line uploader:              *)
(*   - src/app/main.py   the FastAPI service: index.json, upload_file,     *)
(*                       admin_register, stream_file;                      *)
(*   - src/cli/uploader.py  the uploader that registers with the service;  *)
(*   - src/app.py        the Flask service: file_metadata, split_file,     *)
(*                       process_uploaded_file, download_file.             *)
(*                                                                         *)
(* A byte is a natural number, a file or a payload a sequence of bytes.    *)
(* Sizes are scaled down: the part size and the block size of the          *)
(* streaming reader are a few bytes.  The part size of src/app.py is       *)
(* written there as 1.9 * 1024 * 1024 * 1024; it is a whole number of      *)
(* bytes here, as the part size of the two other programs is.              *)
(***************************************************************************)
EXTENDS Integers, Sequences, FiniteSets, TLC

VARIABLES
    store,          \* the backend: the payload of every document, by file_id
    index,          \* data/index.json of the FastAPI service
    up,             \* the upload_file requests of the FastAPI service, by client
    cli,            \* the run of the command line uploader
    reg,            \* the last answer of /admin/register
    file_metadata,  \* the in-memory table of the Flask service
    job,            \* the last /upload request of the Flask service
    disk,           \* the files of UPLOAD_FOLDER of the Flask service
    reqs,           \* the /upload requests of the Flask service, by thread
    resp,           \* the response the reading client is looking at
    nreq,           \* ingest requests begun so far
    files,          \* the table files of files.db
    saves,          \* the calls of save_file made so far, with their arguments
    found           \* what search_files gave, when it was the last call

\* The state of the FastAPI service and of the uploader; of the Flask service.
apiVars == <<index, up, cli, reg>>

flaskVars == <<file_metadata, job, disk, reqs>>

dbVars == <<files, saves, found>>

vars == <<store, apiVars, flaskVars, resp, nreq, dbVars>>

---------------------------------------------------------------------------
(* Bounds *)

\* The part size M: CHUNK_SIZE (main.py), --chunk-size (uploader.py),
\* MAX_CHUNK_SIZE (app.py).
PartSize == 3

\* The block size of resp.content.iter_chunked in stream_file.
IterChunk == 3

\* Ingest requests begun in one behaviour, over all the programs.
MaxRequests == 2

\* Ingest requests begun in one behaviour of SpecIngest and of SpecDownload.
MaxJobs == 1

\* Rows saved in files.db in one behaviour; message ids of one row.
MaxRows == 2

MaxIds == 2

\* retry_telegram_api(max_retries=3)
max_retries == 3

\* An optional number: None, or Some(n) whose value is Val.
None == <<>>

Some(n) == <<n>>

Val(x) == x[1]

Names == {"a", "b"}

Clients == {1, 2}

\* The input lengths: 0, 1, M-1, M, M+1, 3M, 3M+1.
Lengths ==
    {0, 1, PartSize - 1, PartSize, PartSize + 1, 3 * PartSize, 3 * PartSize + 1}

MaxLen == 3 * PartSize + 1

\* The parts of the longest input.
MaxParts == (MaxLen + PartSize - 1) \div PartSize

\* The bytes of the n-th ingested input, of length len: every input has
\* bytes of its own, and a byte tells its position.
Data(n, len) == [p \in 1..len |-> 16 * n + (p - 1)]

Min(a, b) == IF a < b THEN a ELSE b

Max(a, b) == IF a > b THEN a ELSE b

---------------------------------------------------------------------------
(* Python's sequences and files *)

\* s[a:b] of Python, for a and b of any sign.
PySlice(s, a, b) ==
    LET n  == Len(s)
        lo == IF a < 0 THEN Max(n + a, 0) ELSE Min(a, n)
        hi == IF b < 0 THEN Max(n + b, 0) ELSE Min(b, n)
    IN  IF lo < hi THEN SubSeq(s, lo + 1, hi) ELSE <<>>

\* f.read(n) of a binary file holding data, at position pos: the next n bytes,
\* fewer at the end of the file, none after it.
FRead(data, pos, n) == PySlice(data, pos, pos + n)

RECURSIVE SumSizes(_)
SumSizes(chunks) ==
    IF chunks = <<>> THEN 0
    ELSE chunks[1].size + SumSizes(Tail(chunks))

RECURSIVE Concat(_)
Concat(ss) == IF ss = <<>> THEN <<>> ELSE ss[1] \o Concat(Tail(ss))

\* dict.setdefault(key, value)
SetDefault(d, key, value) ==
    IF key \in DOMAIN d THEN d ELSE (key :> value) @@ d

\* d[key] = value
SetItem(d, key, value) == (key :> value) @@ d

---------------------------------------------------------------------------
(* The backend (Telegram): sendDocument stores a payload and answers with
   a new file_id; getFile and the file download give the payload back. *)

SendDocument(payload) == Append(store, payload)

NewFileId == Len(store) + 1

FileContent(file_id) == store[file_id]

---------------------------------------------------------------------------
(* src/app/main.py: the index and upload_file *)

load_index == index

save_index(data) == index' = data

Idle == [pc |-> "idle"]

\* No request answered yet.
NoAnswer == [status |-> 0]

NoResponse == [kind |-> "none"]

\* The end of upload_file once the read loop has left: total_size is set,
\* the index is saved, the answer is the redirect.
FinishUpload(c, idx, filename, data, total, sent) ==
    LET done == [idx EXCEPT ![filename].total_size = total]
    IN  /\ save_index(done)
        /\ up' = [up EXCEPT ![c] =
                    [pc |-> "done", filename |-> filename, data |-> data,
                     sent |-> sent, total |-> total, status |-> 303]]

\* upload_file from its entry to its first await: the index is loaded, the
\* entry of the filename is created when there is none, the body is copied
\* to a temporary file and its first part is read.
UploadBegin(c, filename, len) ==
    /\ up[c].pc # "sending"
    /\ nreq < MaxRequests
    /\ nreq' = nreq + 1
    /\ LET data == Data(nreq + 1, len)
           idx  == SetDefault(load_index, filename,
                       [filename |-> filename, chunks |-> <<>>, total_size |-> 0])
           buf  == FRead(data, 0, PartSize)
       IN  IF buf = <<>>
           THEN /\ FinishUpload(c, idx, filename, data, 0, <<>>)
                /\ UNCHANGED store
           ELSE /\ up' = [up EXCEPT ![c] =
                           [pc |-> "sending", filename |-> filename,
                            data |-> data, idx |-> idx, pos |-> Len(buf),
                            buf |-> buf, total |-> 0, sent |-> <<>>]]
                /\ UNCHANGED <<store, index>>
    /\ UNCHANGED <<cli, reg, flaskVars, resp, dbVars>>

\* send_document_bytes answers: the part is appended to the request's copy
\* of the index and the next part is read; at the end of the file the
\* request finishes.
UploadSendOk(c) ==
    /\ up[c].pc = "sending"
    /\ LET r     == up[c]
           part  == [file_id |-> NewFileId, size |-> Len(r.buf)]
           idx   == [r.idx EXCEPT ![r.filename].chunks = Append(@, part)]
           total == r.total + Len(r.buf)
           sent  == Append(r.sent, part)
           buf   == FRead(r.data, r.pos, PartSize)
       IN  /\ store' = SendDocument(r.buf)
           /\ IF buf = <<>>
              THEN FinishUpload(c, idx, r.filename, r.data, total, sent)
              ELSE /\ up' = [up EXCEPT ![c] =
                              [r EXCEPT !.idx = idx, !.total = total,
                                        !.sent = sent, !.buf = buf,
                                        !.pos = r.pos + Len(buf)]]
                   /\ UNCHANGED index
    /\ UNCHANGED <<cli, reg, flaskVars, resp, nreq, dbVars>>

\* A failing upload that saves what the request has appended so far.
UploadSendFailSaving(c) ==
    /\ up[c].pc = "sending"
    /\ save_index(up[c].idx)
    /\ up' = [up EXCEPT ![c] =
                [pc |-> "failed", filename |-> up[c].filename,
                 data |-> up[c].data, sent |-> up[c].sent,
                 total |-> up[c].total, status |-> 500]]
    /\ UNCHANGED <<store, cli, reg, flaskVars, resp, nreq, dbVars>>

\* send_document_bytes raises (the request fails, or the answer holds no
\* result): the exception leaves upload_file, which answers 500.
UploadSendFail(c) ==
    /\ up[c].pc = "sending"
    /\ up' = [up EXCEPT ![c] =
                [pc |-> "failed", filename |-> up[c].filename,
                 data |-> up[c].data, sent |-> up[c].sent,
                 total |-> up[c].total, status |-> 500]]
    /\ UNCHANGED <<store, index, cli, reg, flaskVars, resp, nreq, dbVars>>

---------------------------------------------------------------------------
(* src/app/main.py: admin_register *)

RequiredKeys == {"filename", "total_size", "chunks"}

\* The handler of /admin/register for the body meta: 400 when a key is
\* missing; otherwise the body becomes the entry of its filename.
admin_register(meta) ==
    IF ~(RequiredKeys \subseteq DOMAIN meta)
    THEN /\ reg' = [status |-> 400, meta |-> meta]
         /\ UNCHANGED index
    ELSE /\ save_index(SetItem(load_index, meta.filename, meta))
         /\ reg' = [status |-> 200, meta |-> meta]

\* The bodies a client of /admin/register other than the uploader posts:
\* with or without parts, the claimed total equal to the sum of the part
\* sizes or not, and one body that lacks a key.
PostedChunks ==
    {<<>>, <<[file_id |-> 1, size |-> 1]>>,
     <<[file_id |-> 1, size |-> PartSize], [file_id |-> 2, size |-> 1]>>}

PostedMetas ==
    {[filename |-> f, total_size |-> t, chunks |-> ch] :
        f \in Names, t \in {0, 1, PartSize + 1}, ch \in PostedChunks}
    \cup {[filename |-> f, chunks |-> <<>>] : f \in Names}

\* A request to /admin/register that does not come from the uploader.
PostRegister(meta) ==
    /\ nreq < MaxRequests
    /\ nreq' = nreq + 1
    /\ admin_register(meta)
    /\ UNCHANGED <<store, up, cli, flaskVars, resp, dbVars>>

---------------------------------------------------------------------------
(* src/cli/uploader.py: main *)

\* The uploader after its read loop: the metadata it will post.  size is
\* os.path.getsize of the input file.
CliMeta(filename, size, file_ids) ==
    [filename |-> filename, total_size |-> size, chunk_size |-> PartSize,
     chunks |-> file_ids]

\* main from its start to the first await: the size is taken and the first
\* part is read; an empty file goes straight to the registration.
CliBegin(filename, len) ==
    /\ cli.pc \notin {"sending", "registering"}
    /\ nreq < MaxRequests
    /\ nreq' = nreq + 1
    /\ LET data == Data(nreq + 1, len)
           buf  == FRead(data, 0, PartSize)
       IN  cli' = IF buf = <<>>
                  THEN [pc |-> "registering", data |-> data,
                        meta |-> CliMeta(filename, Len(data), <<>>)]
                  ELSE [pc |-> "sending", filename |-> filename,
                        data |-> data, pos |-> Len(buf), buf |-> buf,
                        file_ids |-> <<>>]
    /\ UNCHANGED <<store, index, up, reg, flaskVars, resp, dbVars>>

\* send_part answers with the file_id and the bytes sent; the next part is
\* read.
CliSendOk ==
    /\ cli.pc = "sending"
    /\ LET part     == [file_id |-> NewFileId, size |-> Len(cli.buf)]
           file_ids == Append(cli.file_ids, part)
           buf      == FRead(cli.data, cli.pos, PartSize)
       IN  /\ store' = SendDocument(cli.buf)
           /\ cli' = IF buf = <<>>
                     THEN [pc |-> "registering", data |-> cli.data,
                           meta |-> CliMeta(cli.filename, Len(cli.data), file_ids)]
                     ELSE [cli EXCEPT !.file_ids = file_ids, !.buf = buf,
                                      !.pos = cli.pos + Len(buf)]
    /\ UNCHANGED <<index, up, reg, flaskVars, resp, nreq, dbVars>>

\* send_part raises: main ends with the exception, nothing is registered.
CliSendFail ==
    /\ cli.pc = "sending"
    /\ cli' = [pc |-> "failed", filename |-> cli.filename, data |-> cli.data,
               file_ids |-> cli.file_ids]
    /\ UNCHANGED <<store, index, up, reg, flaskVars, resp, nreq, dbVars>>

\* The uploader posts its metadata to /admin/register.
CliRegister ==
    /\ cli.pc = "registering"
    /\ admin_register(cli.meta)
    /\ cli' = [pc |-> "done", data |-> cli.data, meta |-> cli.meta,
               status |-> reg'.status]
    /\ UNCHANGED <<store, up, flaskVars, resp, nreq, dbVars>>

---------------------------------------------------------------------------
(* src/app.py: the retry decorator and the ingest of the Flask service *)

\* What the backend does with the successive attempts of one call: it
\* answers ("ok"), fails with an error the decorator takes for a passing one
\* ("transient": its text holds "A request to the Telegram API was
\* unsuccessful", "Conflict" or "timed out"), or fails with another error
\* ("fatal").
Smooth == <<"ok", "ok", "ok">>

Outcomes ==
    {Smooth,
     <<"fatal", "ok", "ok">>,
     <<"transient", "ok", "ok">>,
     <<"transient", "fatal", "ok">>,
     <<"transient", "transient", "ok">>,
     <<"transient", "transient", "fatal">>,
     <<"transient", "transient", "transient">>}

\* wrapper of retry_telegram_api from its attempt number attempt (from 0) on:
\* the attempt that ends the call and how it ends.
\* A wrapper that calls again after any error.
RECURSIVE RetryAnyError(_, _)
RetryAnyError(outcomes, attempt) ==
    LET o == outcomes[attempt + 1]
    IN  IF o = "ok"
        THEN [raised |-> FALSE, calls |-> attempt + 1]
        ELSE IF attempt < max_retries - 1
        THEN RetryAnyError(outcomes, attempt + 1)
        ELSE [raised |-> TRUE, calls |-> attempt + 1]

RECURSIVE retry_telegram_api(_, _)
retry_telegram_api(outcomes, attempt) ==
    LET o == outcomes[attempt + 1]
    IN  IF o = "ok"
        THEN [raised |-> FALSE, calls |-> attempt + 1]
        ELSE IF o = "transient" /\ attempt < max_retries - 1
        THEN retry_telegram_api(outcomes, attempt + 1)
        ELSE [raised |-> TRUE, calls |-> attempt + 1]

\* safe_send_document(document=f) for the open chunk file f: every attempt
\* sends what f.read() gives from the position the attempts before left the
\* file at.  That is the whole chunk for the first attempt; for a later one
\* it is what follows the consumed bytes the failed attempts have read of
\* f: nothing when the backend answered with an error after it got the
\* document, the whole chunk when the failure came before the first read.
\* The result: whether the call raised, the calls made, and the payload of
\* the document the backend stored.
safe_send_document(chunk, outcomes, consumed) ==
    LET r   == retry_telegram_api(outcomes, 0)
        pos == IF r.calls = 1 THEN 0 ELSE consumed
    IN  [raised |-> r.raised, calls |-> r.calls,
         payload |-> FRead(chunk, pos, Len(chunk))]

\* A count of chunks that is one too many for a multiple of the chunk size.
CeilOneMore(a, b) == a \div b + 1

\* math.ceil(a / b)
Ceil(a, b) == (a + b - 1) \div b

\* split_file: the contents of the chunk files, in order.
split_file(data, chunk_size) ==
    LET file_size    == Len(data)
        total_chunks == Ceil(file_size, chunk_size)
    IN  [i \in 1..total_chunks |->
            FRead(data, Min((i - 1) * chunk_size, file_size), chunk_size)]

\* upload_all_chunks: one task per chunk, started in order; no task waits
\* (the semaphore is free whenever a task asks for it, the send is a blocking
\* call), so the tasks run one after the other, each to its end, also after
\* one has raised.  st is the backend's store, the sends the backend has
\* answered so far (the chunk named by the caption f"{file_id}_{i}" and the
\* file_id returned), the calls of the backend each send took and whether a
\* task has raised;
\* bad is the chunk whose send meets outcomes, with consumed bytes of its
\* file read by the attempts that fail.
RECURSIVE upload_all_chunks(_, _, _, _, _, _)
upload_all_chunks(chunks, i, st, bad, outcomes, consumed) ==
    IF i > Len(chunks) THEN st
    ELSE LET r == safe_send_document(chunks[i],
                      IF i = bad THEN outcomes ELSE Smooth, consumed)
         IN  upload_all_chunks(chunks, i + 1,
                IF r.raised
                THEN [st EXCEPT !.raised = TRUE,
                                !.calls = Append(@, r.calls)]
                ELSE [st EXCEPT !.store = Append(@, r.payload),
                                !.sent = Append(@,
                                    [part |-> i - 1,
                                     file_id |-> Len(st.store) + 1]),
                                !.calls = Append(@, r.calls)],
                bad, outcomes, consumed)

\* The results of n tasks in the order opposite to that of the tasks.
GatherReversed(results, n) ==
    [i \in 1..n |->
        LET k == CHOOSE k \in DOMAIN results : results[k].part = n - i
        IN  results[k].file_id]

\* asyncio.gather(*tasks) when no task has raised: the results of the n
\* tasks in the order of the tasks, whatever the order they ended in.
gather(results, n) ==
    [i \in 1..n |->
        LET k == CHOOSE k \in DOMAIN results : results[k].part = i - 1
        IN  results[k].file_id]

TempPath(filename) == <<"upload", filename>>

ChunkPath(file_id, i) == <<"chunk", file_id, i>>

\* The chunk files split_file has written, by path.
ChunkFiles(file_id, chunks) ==
    [path \in {ChunkPath(file_id, i - 1) : i \in 1..Len(chunks)} |->
        chunks[path[3] + 1]]

\* upload_file of src/app.py with process_uploaded_file, for a request that
\* carries a file: the body is saved under its filename, split, the chunks
\* are uploaded, and the metadata is stored under a new id (uuid4, here the
\* number of the request) when no upload raised.  The chunk files are
\* removed on that path only, the saved body on both.  job keeps, with the
\* answer, the body of the request, the chunks split_file made of it, the
\* calls of the backend each chunk took, what the backend did to the chunk
\* bad and, when no upload raised, the sends the backend has answered.
FlaskUpload(filename, len, bad, outcomes, consumed) ==
    /\ nreq < MaxRequests
    /\ nreq' = nreq + 1
    /\ LET data    == Data(nreq + 1, len)
           file_id == nreq + 1
           chunks  == split_file(data, PartSize)
           st      == upload_all_chunks(chunks, 1,
                         [store |-> store, sent |-> <<>>, calls |-> <<>>,
                          raised |-> FALSE],
                         bad, outcomes, consumed)
           telegram_file_ids == gather(st.sent, Len(chunks))
           retried == bad > 0 /\ ~st.raised /\ st.calls[bad] > 1
       IN  /\ bad \in 0..Len(chunks)
           /\ bad = 0 => outcomes = Smooth
           /\ consumed \in IF retried THEN 0..Len(chunks[bad]) ELSE {0}
           /\ store' = st.store
           /\ IF st.raised
              THEN /\ disk' = ChunkFiles(file_id, chunks) @@ disk
                   /\ job' = [status |-> 500, file_id |-> file_id,
                              filename |-> filename, data |-> data,
                              chunks |-> chunks, calls |-> st.calls,
                              bad |-> bad, outcomes |-> outcomes]
                   /\ UNCHANGED file_metadata
              ELSE /\ file_metadata' = SetItem(file_metadata, file_id,
                          [filename |-> filename, size |-> Len(data),
                           chunks |-> telegram_file_ids,
                           chunk_count |-> Len(telegram_file_ids)])
                   /\ job' = [status |-> 200, file_id |-> file_id,
                              filename |-> filename, data |-> data,
                              chunks |-> chunks, calls |-> st.calls,
                              bad |-> bad, outcomes |-> outcomes,
                              sent |-> st.sent, size |-> Len(data),
                              chunk_count |-> Len(telegram_file_ids)]
                   /\ UNCHANGED disk
    /\ UNCHANGED <<apiVars, reqs, resp, dbVars>>

\* The threads of the Flask server, each with one request at a time.
Threads == {1, 2}

\* os.unlink(path)
Unlink(d, path) == [q \in DOMAIN d \ {path} |-> d[q]]

\* upload_file of src/app.py in a thread t, step by step.  First the body
\* of the request is saved under UPLOAD_FOLDER/<filename>, over whatever
\* file is there.
FlaskSave(t, filename, len) ==
    /\ reqs[t].pc \in {"idle", "done"}
    /\ nreq < MaxRequests
    /\ nreq' = nreq + 1
    /\ disk' = SetItem(disk, TempPath(filename), Data(nreq + 1, len))
    /\ reqs' = [reqs EXCEPT ![t] =
                  [pc |-> "saved", file_id |-> nreq + 1, filename |-> filename,
                   data |-> Data(nreq + 1, len)]]
    /\ UNCHANGED <<store, apiVars, file_metadata, job, resp, dbVars>>

\* Then process_uploaded_file calls split_file on that path: the file that
\* is there now is split into chunk files of the request's own; when there
\* is none, os.path.getsize raises, and the request is answered 500.
FlaskSplit(t) ==
    /\ reqs[t].pc = "saved"
    /\ LET r         == reqs[t]
           file_path == TempPath(r.filename)
       IN  IF file_path \in DOMAIN disk
           THEN LET chunks == split_file(disk[file_path], PartSize)
                IN  /\ disk' = ChunkFiles(r.file_id, chunks) @@ disk
                    /\ reqs' = [reqs EXCEPT ![t] =
                                  [pc |-> "split", file_id |-> r.file_id,
                                   filename |-> r.filename, data |-> r.data,
                                   chunks |-> chunks,
                                   file_size |-> Len(disk[file_path])]]
           ELSE /\ reqs' = [reqs EXCEPT ![t] =
                              [pc |-> "done", status |-> 500,
                               file_id |-> r.file_id, filename |-> r.filename,
                               data |-> r.data, chunks |-> <<>>]]
                /\ UNCHANGED disk
    /\ UNCHANGED <<store, apiVars, file_metadata, job, resp, nreq, dbVars>>

\* Then the chunks are uploaded (the backend stores every one at the first
\* attempt), the chunk files are removed, the metadata is stored, and the
\* file at the path of the saved body is removed if there is one.
FlaskFinish(t) ==
    /\ reqs[t].pc = "split"
    /\ LET r  == reqs[t]
           st == upload_all_chunks(r.chunks, 1,
                    [store |-> store, sent |-> <<>>, calls |-> <<>>,
                     raised |-> FALSE],
                    0, Smooth, 0)
           telegram_file_ids == gather(st.sent, Len(r.chunks))
           kept == [q \in DOMAIN disk \ DOMAIN ChunkFiles(r.file_id, r.chunks)
                      |-> disk[q]]
       IN  /\ store' = st.store
           /\ file_metadata' = SetItem(file_metadata, r.file_id,
                  [filename |-> r.filename, size |-> r.file_size,
                   chunks |-> telegram_file_ids,
                   chunk_count |-> Len(telegram_file_ids)])
           /\ disk' = Unlink(kept, TempPath(r.filename))
           /\ reqs' = [reqs EXCEPT ![t] =
                         [pc |-> "done", status |-> 200, file_id |-> r.file_id,
                          filename |-> r.filename, data |-> r.data,
                          chunks |-> r.chunks]]
    /\ UNCHANGED <<apiVars, job, resp, nreq, dbVars>>

---------------------------------------------------------------------------
(* The Range header of a read request *)

\* "bytes=<start_s>-<end_s>": each side a number or nothing.  kind is
\* "none" for a request without the header and "malformed" for a header
\* that does not split in two at "-".
NoHeader == [kind |-> "none", start_s |-> None, end_s |-> None]

Malformed == [kind |-> "malformed", start_s |-> None, end_s |-> None]

RangeHeader(start_s, end_s) ==
    [kind |-> "range", start_s |-> start_s, end_s |-> end_s]

Side == {None} \cup {Some(n) : n \in 0..MaxLen + 1}

Headers ==
    {NoHeader, Malformed} \cup {RangeHeader(a, b) : a \in Side, b \in Side}

---------------------------------------------------------------------------
(* src/app/main.py: stream_file *)

\* The range stream_file reads from the header: start is 0 when start_s is
\* empty, end is None when end_s is empty; both are 0 and None when the
\* parse raises or there is no header.
StreamRange(hdr) ==
    IF hdr.kind = "range"
    THEN [start |-> IF hdr.start_s # None THEN Val(hdr.start_s) ELSE 0,
          end   |-> IF hdr.end_s # None THEN hdr.end_s ELSE None]
    ELSE [start |-> 0, end |-> None]

\* The blocks of one part, from position pos of its content, through the
\* body of the generator's inner loop.  n is the size of the blocks the
\* transport delivers.  g is the generator: its offset, the bytes yielded,
\* the parts fetched, and whether it has returned.
RECURSIVE IterChunked(_, _, _, _, _, _)
IterChunked(content, pos, n, start, end, g) ==
    IF g.returned \/ pos >= Len(content) THEN g
    ELSE
      LET chunk == FRead(content, pos, n)
          clen  == Len(chunk)
      IN  IF g.offset + clen < start
          THEN IterChunked(content, pos + clen, n, start, end,
                           [g EXCEPT !.offset = @ + clen])
          ELSE IF end # None /\ g.offset > Val(end)
          THEN [g EXCEPT !.returned = TRUE]
          ELSE
            LET c1 == IF start > g.offset
                      THEN PySlice(chunk, start - g.offset, Len(chunk))
                      ELSE chunk
                c2 == IF end # None /\ g.offset + clen > Val(end)
                      THEN PySlice(c1, 0, Val(end) - g.offset + 1)
                      ELSE c1
            IN  IterChunked(content, pos + clen, n, start, end,
                            [g EXCEPT !.body = @ \o c2, !.offset = @ + clen,
                                      !.yields = @ + 1])

\* generator of stream_file: the parts of the manifest in order, each
\* fetched whole and passed on block by block.  A part the backend does not
\* hold ends the generator with an exception.
RECURSIVE generator(_, _, _, _, _, _)
generator(chunks, i, n, start, end, g) ==
    IF g.returned \/ i > Len(chunks) THEN g
    ELSE
      LET file_id == chunks[i].file_id
      IN  IF file_id \notin DOMAIN store
          THEN [g EXCEPT !.returned = TRUE, !.error = TRUE]
          ELSE generator(chunks, i + 1, n, start, end,
                  IterChunked(FileContent(file_id), 0, n, start, end,
                      [g EXCEPT !.fetched = Append(@, file_id)]))

\* The headers of stream_file for a request with a Range header:
\* Content-Length when the end is known, and Content-Range, whose end is
\* written as f"{end or ''}".
StreamContentLength(start, end) ==
    IF end # None THEN Some(Val(end) - start + 1) ELSE None

StreamContentRange(start, end, total_size) ==
    [start |-> start,
     end   |-> IF end # None /\ Val(end) # 0 THEN end ELSE None,
     total |-> Some(total_size)]

\* GET /stream/{filename}: the response with the whole output of its
\* generator.
stream_file(filename, hdr, n) ==
    LET idx == load_index
    IN  IF filename \notin DOMAIN idx
        THEN [kind |-> "stream", status |-> 404, filename |-> filename]
        ELSE
          LET meta == idx[filename]
              r    == StreamRange(hdr)
              g    == generator(meta.chunks, 1, n, r.start, r.end,
                          [offset |-> 0, body |-> <<>>, fetched |-> <<>>,
                           yields |-> 0, returned |-> FALSE, error |-> FALSE])
              ranged == hdr.kind # "none"
          IN  [kind |-> "stream", filename |-> filename, hdr |-> hdr,
               meta |-> meta,
               status |-> IF ranged THEN 206 ELSE 200,
               content_length |->
                   IF ranged THEN StreamContentLength(r.start, r.end) ELSE None,
               content_range |->
                   IF ranged
                   THEN StreamContentRange(r.start, r.end, meta.total_size)
                   ELSE [start |-> 0, end |-> None, total |-> None],
               body |-> g.body, fetched |-> g.fetched, error |-> g.error]

StreamFile(filename, hdr, n) ==
    /\ resp.kind = "none"
    /\ resp' = stream_file(filename, hdr, n)
    /\ UNCHANGED <<store, apiVars, flaskVars, nreq, dbVars>>

\* The client has read the response.
ResponseDone ==
    /\ resp.kind # "none"
    /\ resp' = NoResponse
    /\ UNCHANGED <<store, apiVars, flaskVars, nreq, dbVars>>

---------------------------------------------------------------------------
(* src/app.py: download_file *)

\* The range download_file reads from the header: start is 0 when the first
\* side is empty, end is file_size - 1 when the second is.
DownloadRange(hdr, file_size) ==
    IF hdr.kind = "range"
    THEN [start |-> IF hdr.start_s # None THEN Val(hdr.start_s) ELSE 0,
          end   |-> IF hdr.end_s # None THEN Val(hdr.end_s) ELSE file_size - 1]
    ELSE [start |-> 0, end |-> file_size - 1]

\* The slice of chunk i that generate yields: where it starts in the chunk
\* and how long it is.
ChunkOffset(i, first_chunk, start, chunk_size) ==
    IF i = first_chunk THEN start - i * chunk_size ELSE 0

\* ChunkLength without the offset taken off the length of the last chunk.
ChunkLengthNoOffset(i, last_chunk, end, chunk_size, offset) ==
    IF i = last_chunk
    THEN end - i * chunk_size + 1
    ELSE chunk_size - offset

ChunkLength(i, last_chunk, end, chunk_size, offset) ==
    IF i = last_chunk
    THEN end - i * chunk_size - offset + 1
    ELSE chunk_size - offset

\* generate of download_file from chunk i (from 0) on.  bad is the chunk
\* whose fetch raises, or -1; the loop goes on with the next chunk after it.
\* An index past the list of chunks raises outside the try and ends the
\* generator.
RECURSIVE generate(_, _, _, _, _, _, _, _)
generate(chunk_ids, i, first_chunk, last_chunk, start, end, bad, g) ==
    IF i > last_chunk THEN g
    ELSE IF i >= Len(chunk_ids) THEN [g EXCEPT !.error = TRUE]
    ELSE
      LET chunk_id == chunk_ids[i + 1]
      IN  IF i = bad \/ chunk_id \notin DOMAIN store
          THEN generate(chunk_ids, i + 1, first_chunk, last_chunk, start, end,
                        bad, [g EXCEPT !.failed = Append(@, i)])
          ELSE
            LET chunk_data == FileContent(chunk_id)
                offset == ChunkOffset(i, first_chunk, start, PartSize)
                length == ChunkLength(i, last_chunk, end, PartSize, offset)
                piece  == PySlice(chunk_data, offset, offset + length)
            IN  generate(chunk_ids, i + 1, first_chunk, last_chunk, start, end,
                         bad,
                         [g EXCEPT !.body = @ \o piece,
                                   !.fetched = Append(@, chunk_id),
                                   !.pieces = Append(@,
                                       [chunk |-> i, offset |-> offset,
                                        bytes |-> piece])])

\* GET /download/<file_id>: the response with the whole output of generate.
download_file(file_id, hdr, bad) ==
    IF file_id \notin DOMAIN file_metadata
    THEN [kind |-> "download", status |-> 404, file_id |-> file_id]
    ELSE IF hdr.kind = "malformed"
    THEN [kind |-> "download", status |-> 500, file_id |-> file_id]
    ELSE
      LET metadata    == file_metadata[file_id]
          file_size   == metadata.size
          r           == DownloadRange(hdr, file_size)
          first_chunk == r.start \div PartSize
          last_chunk  == r.end \div PartSize
          g == generate(metadata.chunks, first_chunk, first_chunk, last_chunk,
                        r.start, r.end, bad,
                        [body |-> <<>>, fetched |-> <<>>, pieces |-> <<>>,
                         failed |-> <<>>, error |-> FALSE])
          ranged == hdr.kind = "range"
      IN  [kind |-> "download", file_id |-> file_id, hdr |-> hdr,
           meta |-> metadata,
           status |-> IF ranged THEN 206 ELSE 200,
           content_length |->
               Some(IF ranged THEN r.end - r.start + 1 ELSE file_size),
           content_range |->
               IF ranged
               THEN [start |-> r.start, end |-> Some(r.end),
                     total |-> Some(file_size)]
               ELSE [start |-> 0, end |-> None, total |-> None],
           body |-> g.body, fetched |-> g.fetched, pieces |-> g.pieces,
           failed |-> g.failed, error |-> g.error]

DownloadFile(file_id, hdr, bad) ==
    /\ resp.kind = "none"
    /\ resp' = download_file(file_id, hdr, bad)
    /\ UNCHANGED <<store, apiVars, flaskVars, nreq, dbVars>>

---------------------------------------------------------------------------
(* src/db.py: save_file and search_files *)

\* A text is a sequence of characters.
Digits == <<"0", "1", "2", "3", "4", "5", "6", "7", "8", "9">>

\* str(n) for a natural number n.
RECURSIVE str(_)
str(n) ==
    IF n < 10 THEN <<Digits[n + 1]>>
    ELSE str(n \div 10) \o <<Digits[(n % 10) + 1]>>

\* sep.join(texts)
RECURSIVE Join(_, _)
Join(sep, texts) ==
    IF texts = <<>> THEN <<>>
    ELSE IF Len(texts) = 1 THEN texts[1]
    ELSE texts[1] \o <<sep>> \o Join(sep, Tail(texts))

\* text.split(sep): the fields between the separators, one more than the
\* separators in the text; the empty text has one empty field.
RECURSIVE Split(_, _)
Split(text, sep) ==
    IF \A k \in DOMAIN text : text[k] # sep THEN <<text>>
    ELSE LET k == CHOOSE k \in DOMAIN text :
                     text[k] = sep /\ \A j \in 1..k - 1 : text[j] # sep
         IN  <<SubSeq(text, 1, k - 1)>> \o Split(SubSeq(text, k + 1, Len(text)), sep)

DigitValue(ch) == (CHOOSE d \in DOMAIN Digits : Digits[d] = ch) - 1

\* int(text) of a text of digits; the empty text and a text with another
\* character raise ValueError.
IsNumber(text) ==
    /\ text # <<>>
    /\ \A k \in DOMAIN text : \E d \in DOMAIN Digits : Digits[d] = text[k]

RECURSIVE int(_)
int(text) ==
    IF Len(text) = 1 THEN DigitValue(text[1])
    ELSE 10 * int(SubSeq(text, 1, Len(text) - 1)) + DigitValue(text[Len(text)])

\* The message ids of a part: of one digit and of two.
MsgIds == {7, 12}

IdLists == UNION {[1..n -> MsgIds] : n \in 0..MaxIds}

NoRows == [status |-> "none"]

\* save_file(name, msg_ids): a row with the next id, the name and the ids
\* written in decimal with commas between them.
save_file(name, msg_ids) ==
    files' = Append(files,
                [id |-> Len(files) + 1, name |-> name,
                 msg_ids |-> Join(",", [i \in DOMAIN msg_ids |-> str(msg_ids[i])])])

SaveFile(name, msg_ids) ==
    /\ Len(files) < MaxRows
    /\ save_file(name, msg_ids)
    /\ saves' = Append(saves, [name |-> name, msg_ids |-> msg_ids])
    /\ found' = NoRows
    /\ UNCHANGED <<store, apiVars, flaskVars, resp, nreq>>

\* The rows search_files selects: all of them for the empty query, those
\* whose name holds the query otherwise (a name is one letter here).
Selected(query) ==
    SelectSeq(files, LAMBDA r : query = "" \/ r.name = query)

\* search_files(query): the rows selected with their msg_ids read back as
\* a list of numbers, or ValueError when a field of a row is not a number.
search_files(query) ==
    LET rows == Selected(query)
    IN  IF \A k \in DOMAIN rows :
              \A j \in DOMAIN Split(rows[k].msg_ids, ",") :
                 IsNumber(Split(rows[k].msg_ids, ",")[j])
        THEN [status |-> "ok", query |-> query,
              rows |-> [k \in DOMAIN rows |->
                          [id |-> rows[k].id, name |-> rows[k].name,
                           msg_ids |->
                              LET fields == Split(rows[k].msg_ids, ",")
                              IN  [j \in DOMAIN fields |-> int(fields[j])]]]]
        ELSE [status |-> "ValueError", query |-> query]

SearchFiles(query) ==
    /\ found' = search_files(query)
    /\ UNCHANGED <<files, saves, store, apiVars, flaskVars, resp, nreq>>

---------------------------------------------------------------------------
Init ==
    /\ store = <<>>
    /\ index = <<>>
    /\ up = [c \in Clients |-> Idle]
    /\ cli = Idle
    /\ reg = NoAnswer
    /\ file_metadata = <<>>
    /\ job = NoAnswer
    /\ reqs = [t \in Threads |-> Idle]
    /\ disk = <<>>
    /\ resp = NoResponse
    /\ nreq = 0
    /\ files = <<>>
    /\ saves = <<>>
    /\ found = NoRows

\* The requests of the three ingest programs, interleaved; the retries of
\* the Flask service are in NextIngest.
Next ==
    \/ \E c \in Clients, filename \in Names, len \in Lengths :
          UploadBegin(c, filename, len)
    \/ \E c \in Clients : UploadSendOk(c)
    \/ \E c \in Clients : UploadSendFail(c)
    \/ \E meta \in PostedMetas : PostRegister(meta)
    \/ \E filename \in Names, len \in Lengths : CliBegin(filename, len)
    \/ CliSendOk
    \/ CliSendFail
    \/ CliRegister
    \/ \E filename \in Names, len \in Lengths, bad \in 0..MaxParts,
             outcomes \in {Smooth, <<"fatal", "ok", "ok">>} :
          FlaskUpload(filename, len, bad, outcomes, 0)

Spec == Init /\ [][Next]_vars

\* The three ingest paths, one request after the other.
NextIngest ==
    \/ \E filename \in Names, len \in Lengths :
          /\ nreq < MaxJobs
          /\ UploadBegin(1, filename, len)
    \/ UploadSendOk(1)
    \/ UploadSendFail(1)
    \/ \E filename \in Names, len \in Lengths :
          /\ nreq < MaxJobs
          /\ CliBegin(filename, len)
    \/ CliSendOk
    \/ CliSendFail
    \/ CliRegister
    \/ \E filename \in Names, len \in Lengths, bad \in 0..MaxParts,
             outcomes \in Outcomes, consumed \in 0..PartSize :
          /\ nreq < MaxJobs
          /\ FlaskUpload(filename, len, bad, outcomes, consumed)

SpecIngest == Init /\ [][NextIngest]_vars

\* The FastAPI service with one uploading client and one reading client.
NextStream ==
    \/ \E filename \in Names, len \in Lengths : UploadBegin(1, filename, len)
    \/ UploadSendOk(1)
    \/ UploadSendFail(1)
    \/ \E filename \in DOMAIN index, hdr \in Headers, n \in 1..IterChunk :
          StreamFile(filename, hdr, n)
    \/ ResponseDone

SpecStream == Init /\ [][NextStream]_vars

\* The Flask service with one reading client; the backend stores every part
\* at the first attempt.
NextDownload ==
    \/ \E filename \in Names, len \in Lengths :
          /\ nreq < MaxJobs
          /\ FlaskUpload(filename, len, 0, Smooth, 0)
    \/ \E file_id \in DOMAIN file_metadata, hdr \in Headers,
             bad \in -1..MaxParts - 1 :
          DownloadFile(file_id, hdr, bad)
    \/ ResponseDone

SpecDownload == Init /\ [][NextDownload]_vars

\* The table of src/db.py: rows saved and searched.
NextDb ==
    \/ \E name \in Names, msg_ids \in IdLists : SaveFile(name, msg_ids)
    \/ \E query \in {""} \cup Names : SearchFiles(query)

SpecDb == Init /\ [][NextDb]_vars

\* The Flask service with two threads, their steps interleaved.
NextThreads ==
    \/ \E t \in Threads, filename \in Names, len \in Lengths :
          FlaskSave(t, filename, len)
    \/ \E t \in Threads : FlaskSplit(t)
    \/ \E t \in Threads : FlaskFinish(t)

SpecThreads == Init /\ [][NextThreads]_vars

---------------------------------------------------------------------------
(* What the properties below speak of *)

\* The sizes of a sequence of payloads; the size fields of a list of parts.
Sizes(payloads) == [i \in DOMAIN payloads |-> Len(payloads[i])]

PartSizes(chunks) == [i \in DOMAIN chunks |-> chunks[i].size]

RECURSIVE Sum(_)
Sum(ns) == IF ns = <<>> THEN 0 ELSE ns[1] + Sum(Tail(ns))

\* sizes are the part sizes of an input of len bytes cut at m bytes: as many
\* parts as needed and no more, none empty, all but the last of m bytes.
IsSplitOf(sizes, len, m) ==
    LET n == Len(sizes)
    IN  /\ n * m >= len
        /\ n > 0 => (n - 1) * m < len
        /\ \A i \in 1..n : sizes[i] >= 1 /\ sizes[i] <= m
        /\ \A i \in 1..n - 1 : sizes[i] = m
        /\ Sum(sizes) = len

\* C7: each splitting loop cuts an input of L bytes into ceil(L/M) parts, 0
\* for L = 0: every part is non-empty and of at most M bytes, every part but
\* the last is of M bytes, the sizes add up to L, and no empty part follows
\* when L is a multiple of M.  The loops: split_file (Flask), the loop of
\* upload_file (FastAPI) once it has left, the loop of the uploader once it
\* has left.
C7_SplitParts ==
    /\ job.status # 0 => IsSplitOf(Sizes(job.chunks), Len(job.data), PartSize)
    /\ \A c \in Clients :
          up[c].pc = "done" =>
              IsSplitOf(PartSizes(up[c].sent), Len(up[c].data), PartSize)
    /\ cli.pc \in {"registering", "done"} =>
          IsSplitOf(PartSizes(cli.meta.chunks), Len(cli.data), PartSize)

\* An input of exactly 3 * M bytes was split, by one of the three loops.
C7_Witness ==
    \/ /\ job.status # 0
       /\ Len(job.data) = 3 * PartSize
       /\ Len(job.chunks) = 3
    \/ /\ up[1].pc = "done"
       /\ Len(up[1].data) = 3 * PartSize
       /\ Len(up[1].sent) = 3
    \/ /\ cli.pc = "done"
       /\ Len(cli.data) = 3 * PartSize
       /\ Len(cli.meta.chunks) = 3

\* The file_ids of a list of parts; the file_ids the index refers to.
FileIds(chunks) == {chunks[i].file_id : i \in DOMAIN chunks}

IndexedFileIds ==
    UNION {FileIds(index[f].chunks) : f \in DOMAIN index}

\* C10: an ingest one of whose part uploads fails ends with an error and
\* leaves the manifest store without a new or changed entry, whichever
\* part failed.  In every state: a failed upload_file request has answered
\* 500 and no entry of the index holds a part it uploaded, the same for a
\* failed run of the uploader, and a failed /upload of the Flask service has
\* answered 500 and left no entry under its id.  In every step: the index
\* changes only when an upload_file request or the uploader's registration
\* ends well, and file_metadata only when an /upload ends well.
C10_FailedIngestLeavesNoManifest ==
    /\ [](/\ \A c \in Clients :
               up[c].pc = "failed" =>
                   /\ up[c].status = 500
                   /\ FileIds(up[c].sent) \cap IndexedFileIds = {}
          /\ cli.pc = "failed" =>
                FileIds(cli.file_ids) \cap IndexedFileIds = {}
          /\ job.status \notin {0, 200} =>
                /\ job.status = 500
                /\ job.file_id \notin DOMAIN file_metadata)
    /\ [][/\ index' # index =>
               \/ \E c \in Clients : up'[c] # up[c] /\ up'[c].pc = "done"
               \/ cli' # cli /\ cli'.pc = "done" /\ cli'.status = 200
               \/ cli' = cli /\ up' = up /\ reg'.status = 200
          /\ file_metadata' # file_metadata => job' # job /\ job'.status = 200
         ]_vars

\* An upload_file request has failed at its third part, after two parts
\* were stored by the backend.
C10_Witness ==
    /\ up[1].pc = "failed"
    /\ Len(up[1].sent) = 2
    /\ Len(up[1].data) > 2 * PartSize


\* C8: after upload_file requests that ended well, several of them under
\* one filename included, every entry of the index has a total_size equal to
\* the sum of the sizes of its chunks.  (Stated for the behaviours in which
\* nothing was posted to /admin/register, whose entries are the caller's.)
C8_TotalIsSumOfChunks ==
    reg.status = 0 =>
        \A f \in DOMAIN index :
            index[f].total_size = SumSizes(index[f].chunks)

\* C9: /admin/register refuses a manifest whose total_size is not the sum of
\* the sizes of its chunks: no such manifest is answered 200 and stored.
C9_RegisterRefusesMismatch ==
    reg.status = 200 =>
        reg.meta.total_size = SumSizes(reg.meta.chunks)


---------------------------------------------------------------------------
(* What a response was read from *)

\* The response answers a read with a body: it holds the manifest read.
Served == resp.kind # "none" /\ resp.status \in {200, 206}

\* The file_ids of the manifest of the response, in order.
RespFileIds ==
    IF resp.kind = "stream"
    THEN [i \in DOMAIN resp.meta.chunks |-> resp.meta.chunks[i].file_id]
    ELSE resp.meta.chunks

\* The bytes of the file of the response: its parts as the backend holds
\* them, one after the other.
RespContent == Concat([i \in DOMAIN RespFileIds |-> store[RespFileIds[i]]])

\* The size its manifest gives the file.
RespTotal ==
    IF resp.kind = "stream" THEN resp.meta.total_size ELSE resp.meta.size

\* The manifest is sound: its size is the size of its parts together, and
\* every part but the last is of M bytes.
RespTidy ==
    /\ RespTotal = Len(RespContent)
    /\ \A i \in 1..Len(RespFileIds) - 1 : Len(store[RespFileIds[i]]) = PartSize

\* Every part the reader asked the backend for came.
RespFetchedAll ==
    /\ ~resp.error
    /\ resp.kind = "download" => resp.failed = <<>>

\* Bytes first..last of s, counted from 0.
Bytes(s, first, last) == SubSeq(s, first + 1, last + 1)

\* C1: a file ingested with no backend failure and read back whole, with no
\* Range header, comes back byte for byte: through upload_file and
\* stream_file of the FastAPI service, and through /upload and download_file
\* of the Flask service.
C1_RoundTrip ==
    /\ \A c \in Clients :
          ( /\ Served
            /\ resp.kind = "stream"
            /\ resp.hdr.kind = "none"
            /\ up[c].pc = "done"
            /\ up[c].filename = resp.filename
            /\ index[resp.filename] = resp.meta )
          => resp.body = up[c].data /\ ~resp.error
    /\ ( /\ Served
         /\ resp.kind = "download"
         /\ resp.hdr.kind = "none"
         /\ RespFetchedAll
         /\ job.status = 200
         /\ job.file_id = resp.file_id
         /\ \A i \in DOMAIN job.calls : job.calls[i] = 1 )
       => resp.body = job.data

\* C2: stream_file answers a range bytes=start-end with 0 <= start <= end
\* <= L-1 on a sound manifest of size L with exactly the bytes start..end of
\* the file, wherever start and end fall in the blocks fetched.
C2_StreamRangeExact ==
    ( /\ Served
      /\ resp.kind = "stream"
      /\ resp.hdr.kind = "range"
      /\ resp.hdr.start_s # None
      /\ resp.hdr.end_s # None
      /\ RespTidy
      /\ Val(resp.hdr.start_s) <= Val(resp.hdr.end_s)
      /\ Val(resp.hdr.end_s) <= RespTotal - 1 )
    => /\ resp.body = Bytes(RespContent, Val(resp.hdr.start_s), Val(resp.hdr.end_s))
       /\ Len(resp.body) = Val(resp.hdr.end_s) - Val(resp.hdr.start_s) + 1


\* The header of the response gives both sides of a range, start and end.
BothSides ==
    /\ resp.hdr.kind = "range"
    /\ resp.hdr.start_s # None
    /\ resp.hdr.end_s # None

\* C3: download_file answers a range bytes=start-end with 0 <= start <= end
\* <= L-1, on a file of size L whose parts but the last are of M bytes and
\* whose fetches all succeed, with exactly the bytes start..end: the parts
\* start \div M .. end \div M are read in order, the first from offset
\* start - (start \div M) * M and the others from offset 0.
C3_DownloadRangeExact ==
    ( /\ Served
      /\ resp.kind = "download"
      /\ BothSides
      /\ RespTidy
      /\ resp.failed = <<>>
      /\ Val(resp.hdr.start_s) <= Val(resp.hdr.end_s)
      /\ Val(resp.hdr.end_s) <= RespTotal - 1 )
    => LET start == Val(resp.hdr.start_s)
           end   == Val(resp.hdr.end_s)
           first == start \div PartSize
       IN  /\ resp.body = Bytes(RespContent, start, end)
           /\ Len(resp.body) = end - start + 1
           /\ ~resp.error
           /\ Len(resp.pieces) = end \div PartSize - first + 1
           /\ \A k \in DOMAIN resp.pieces :
                 /\ resp.pieces[k].chunk = first + k - 1
                 /\ resp.pieces[k].offset =
                        IF k = 1 THEN start - first * PartSize ELSE 0
                 /\ resp.pieces[k].bytes # <<>>

\* A range of M bytes that begins at the last byte of part 0 was answered
\* from a file of more than two parts: 1 byte of part 0 from offset M - 1,
\* then M - 1 bytes of part 1 from offset 0.
C3_Witness ==
    /\ Served
    /\ resp.kind = "download"
    /\ BothSides
    /\ resp.failed = <<>>
    /\ RespTotal > 2 * PartSize
    /\ Val(resp.hdr.start_s) = PartSize - 1
    /\ Val(resp.hdr.end_s) = 2 * PartSize - 2
    /\ Len(resp.pieces) = 2
    /\ resp.pieces[1].offset = PartSize - 1
    /\ Len(resp.pieces[1].bytes) = 1
    /\ Len(resp.pieces[2].bytes) = PartSize - 1

\* C4: a suffix range bytes=-N on a file of size L >= N >= 1 is answered
\* with the last N bytes of the file, the bytes L-N..L-1, by download_file
\* and by stream_file.
C4_SuffixRange ==
    ( /\ Served
      /\ resp.hdr.kind = "range"
      /\ resp.hdr.start_s = None
      /\ resp.hdr.end_s # None
      /\ RespTidy
      /\ RespFetchedAll
      /\ Val(resp.hdr.end_s) >= 1
      /\ Val(resp.hdr.end_s) <= RespTotal )
    => resp.body =
          Bytes(RespContent, RespTotal - Val(resp.hdr.end_s), RespTotal - 1)

\* The end of the range of the response once clamped to the file: the end
\* given when it is in the file, the last byte of the file otherwise.
ClampedEnd ==
    IF resp.hdr.end_s # None
    THEN Min(Val(resp.hdr.end_s), RespTotal - 1)
    ELSE RespTotal - 1

\* C5: a range on an existing file whose start is not less than the size of
\* the file, or is greater than the end once clamped, is refused: the answer
\* is neither 200 nor 206, no byte is sent and no part is fetched.
C5_UnsatisfiableRangeRefused ==
    \A kind \in {"stream", "download"} :
      ( /\ resp.kind = kind
        /\ resp.status # 404
        /\ resp.status # 500
        /\ resp.hdr.kind = "range"
        /\ resp.hdr.start_s # None
        /\ RespTidy
        /\ \/ Val(resp.hdr.start_s) >= RespTotal
           \/ Val(resp.hdr.start_s) > ClampedEnd )
      => /\ resp.status \notin {200, 206}
         /\ resp.body = <<>>
         /\ resp.fetched = <<>>

\* C6: a range with start < L and end >= L on a file of size L is answered
\* as the range start..L-1: exactly those bytes are sent, without error, and
\* Content-Length is L - start, the number of bytes sent.
C6_EndClamped ==
    ( /\ Served
      /\ BothSides
      /\ RespTidy
      /\ resp.kind = "download" => resp.failed = <<>>
      /\ Val(resp.hdr.start_s) < RespTotal
      /\ Val(resp.hdr.end_s) >= RespTotal )
    => /\ resp.body = Bytes(RespContent, Val(resp.hdr.start_s), RespTotal - 1)
       /\ ~resp.error
       /\ resp.content_length = Some(RespTotal - Val(resp.hdr.start_s))
       /\ resp.content_length = Some(Len(resp.body))


\* s is the beginning of t.
IsPrefix(s, t) == Len(s) <= Len(t) /\ s = SubSeq(t, 1, Len(s))

\* C11: when the fetch of a part fails during a download, the stream ends
\* there: no byte of a later part is sent, and what the client of a whole
\* read has received is a beginning of the file, never a body with a gap.
C11_FailedFetchAborts ==
    ( /\ Served
      /\ resp.kind = "download"
      /\ resp.failed # <<>> )
    => /\ \A k \in DOMAIN resp.pieces : resp.pieces[k].chunk < resp.failed[1]
       /\ (resp.hdr.kind = "none" /\ RespTidy) => IsPrefix(resp.body, RespContent)


\* The metadata the last request of the Flask service has stored.
JobMeta == file_metadata[job.file_id]

\* The last request of the Flask service succeeded after the send of one of
\* its chunks failed with passing errors and was tried again.
JobRetried ==
    /\ job.status = 200
    /\ \E i \in DOMAIN job.calls : job.calls[i] > 1

\* C12: when the upload of one part of a Flask ingest fails with a passing
\* error and the retry succeeds, the manifest is that of a run without
\* failure: as many parts in the same order, and the backend holds for each
\* part the whole bytes of that part.
C12_RetryTransparent ==
    JobRetried
    => /\ JobMeta.chunk_count = Len(job.chunks)
       /\ Len(JobMeta.chunks) = Len(job.chunks)
       /\ \A i \in DOMAIN JobMeta.chunks :
             store[JobMeta.chunks[i]] = job.chunks[i]


\* The first attempt of a call the backend does not answer with a passing
\* error, or max_retries when there is none before it.
RECURSIVE Decisive(_, _)
Decisive(outcomes, k) ==
    IF k >= max_retries \/ outcomes[k] # "transient" THEN k
    ELSE Decisive(outcomes, k + 1)

\* C13: a call through retry_telegram_api with max_retries = 3 makes at
\* most 3 calls of the backend and ends: it calls again only after a
\* passing error, raises any other error at once, returns the first answer
\* with no call after it, and raises the third passing error in a row.
C13_RetryBounded ==
    (job.status # 0 /\ job.bad > 0)
    => LET o      == job.outcomes
           n      == job.calls[job.bad]
           raised == job.status = 500
       IN  /\ n \in 1..max_retries
           /\ n = Decisive(o, 1)
           /\ \A k \in 1..n - 1 : o[k] = "transient"
           /\ raised <=> o[n] # "ok"
           /\ raised => o[n] = "fatal" \/ n = max_retries

\* A send has failed three times with a passing error and the third was
\* raised.
C13_Witness ==
    /\ job.status = 500
    /\ job.bad = 2
    /\ job.outcomes = <<"transient", "transient", "transient">>
    /\ job.calls[job.bad] = max_retries


\* C14: when two upload_file requests for two different filenames run at
\* the same time, their steps interleaved in any way, and both succeed, the
\* index holds the manifest of both files, each with all its chunks.
C14_ConcurrentUploadsKept ==
    ( /\ nreq = 2
      /\ \A c \in Clients : up[c].pc = "done"
      /\ up[1].filename # up[2].filename )
    => \A c \in Clients :
          /\ up[c].filename \in DOMAIN index
          /\ index[up[c].filename].chunks = up[c].sent


\* The step ends an upload_file request of client c with its redirect.
UploadCompletes(c) ==
    /\ up'[c].pc = "done"
    /\ up[c].pc = "sending" \/ nreq' # nreq

\* C15: a file ingested under a name that an earlier file has is another
\* file with an id of its own: every ingest that completes adds a manifest
\* under a new id and leaves the manifests stored before it as they were,
\* neither replaced nor merged with the new one.
C15_SameNameDistinctFiles ==
    [][ /\ \A f \in DOMAIN index :
              f \in DOMAIN index' /\ index'[f] = index[f]
        /\ \A id \in DOMAIN file_metadata :
              id \in DOMAIN file_metadata' /\ file_metadata'[id] = file_metadata[id]
        /\ \A c \in Clients :
              UploadCompletes(c)
              => Cardinality(DOMAIN index') = Cardinality(DOMAIN index) + 1
      ]_vars


\* C16: for a range bytes=start-end of a file of several parts the reader
\* asks the backend for part i only if part i has a byte in start..end: no
\* part that ends before start and no part that begins after end is fetched.
C16_FetchOnlyOverlapping ==
    ( /\ Served
      /\ BothSides
      /\ RespTidy
      /\ Val(resp.hdr.start_s) <= Val(resp.hdr.end_s)
      /\ Val(resp.hdr.end_s) <= RespTotal - 1 )
    => \A i \in DOMAIN RespFileIds :
          (\E k \in DOMAIN resp.fetched : resp.fetched[k] = RespFileIds[i])
          => /\ (i - 1) * PartSize <= Val(resp.hdr.end_s)
             /\ Val(resp.hdr.start_s) <=
                    (i - 1) * PartSize + Len(store[RespFileIds[i]]) - 1


\* C17: the chunk list process_uploaded_file records holds at position i
\* the file_id the backend returned for the upload of the i-th chunk of the
\* file, the bytes from offset i * chunk_size on, for every i, and
\* chunk_count is the number of the chunks.
C17_GatherKeepsOrder ==
    job.status = 200
    => /\ JobMeta.chunk_count = Len(job.chunks)
       /\ Len(JobMeta.chunks) = Len(job.chunks)
       /\ \A i \in DOMAIN job.chunks :
             /\ job.chunks[i] = FRead(job.data, (i - 1) * PartSize, PartSize)
             /\ \E k \in DOMAIN job.sent :
                   job.sent[k] = [part |-> i - 1, file_id |-> JobMeta.chunks[i]]

\* A file of more than 3 chunks was ingested by the Flask service.
C17_Witness ==
    /\ job.status = 200
    /\ Len(job.chunks) > 3
    /\ Len(JobMeta.chunks) = Len(job.chunks)


\* C18: a range request answered 206 has a Content-Range that gives the
\* start, the inclusive end and the size of the file; the end is the last
\* byte of the file when the request gives none, and 0 when the request
\* asks for end 0.
C18_ContentRange ==
    ( /\ Served
      /\ resp.status = 206
      /\ resp.hdr.kind = "range"
      /\ resp.hdr.start_s # None
      /\ Val(resp.hdr.start_s) <= ClampedEnd
      /\ resp.hdr.end_s # None => Val(resp.hdr.end_s) <= RespTotal - 1 )
    => /\ resp.content_range.start = Val(resp.hdr.start_s)
       /\ resp.content_range.end = Some(ClampedEnd)
       /\ resp.content_range.total = Some(RespTotal)


\* C19: save_file(name, ids) followed by search_files() succeeds and gives a
\* record of that name whose msg_ids is ids, the same numbers in the same
\* order, for every list ids of message ids, the empty list too.
C19_SaveSearchRoundTrip ==
    (found.status # "none" /\ found.query = "")
    => /\ found.status = "ok"
       /\ Len(found.rows) = Len(saves)
       /\ \A k \in DOMAIN saves :
             /\ found.rows[k].name = saves[k].name
             /\ found.rows[k].msg_ids = saves[k].msg_ids


\* C20: when process_uploaded_file has returned or raised, neither the
\* saved body of the request nor any chunk file split_file wrote for it is
\* on disk, on success and on every failure.
C20_NoFileLeftOnDisk ==
    job.status # 0
    => /\ TempPath(job.filename) \notin DOMAIN disk
       /\ \A i \in 1..Len(job.chunks) :
             ChunkPath(job.file_id, i - 1) \notin DOMAIN disk


\* C21: when two /upload requests of the Flask service are handled at the
\* same time, each splits and uploads exactly the bytes of its own request,
\* whatever the interleaving and also when both carry the same filename: no
\* request reads, overwrites or removes the saved body of the other.
C21_ConcurrentUploadsOwnBytes ==
    \A t \in Threads :
       /\ reqs[t].pc = "split" => reqs[t].chunks = split_file(reqs[t].data, PartSize)
       /\ reqs[t].pc = "done"
          => /\ reqs[t].status = 200
             /\ reqs[t].chunks = split_file(reqs[t].data, PartSize)
             /\ Concat([i \in DOMAIN file_metadata[reqs[t].file_id].chunks |->
                           store[file_metadata[reqs[t].file_id].chunks[i]]])
                   = reqs[t].data


===========================================================================
